---- MODULE Spec2Model ----
(***************************************************************************)
(* data_plot.py: a module-level script that reads ./result.csv into six    *)
(* parallel lists and draws them as step lines on two stacked panels.      *)
(*                                                                         *)
(* The script is modelled statement by statement: pc names the statement   *)
(* about to run.  Numbers are fixed-point: a finite float is the integer   *)
(* count of hundredths (0.5 is 50, 1 is 100).  Axis limits are kept in     *)
(* twentieths of a hundredth, so that the 5 % expansion matplotlib applies *)
(* to a degenerate range is exact.                                         *)
(***************************************************************************)
EXTENDS Integers, Sequences, FiniteSets, TLC

VARIABLES exists, file, pc, f, reader, row, nums,
          t, r, y, u, limit_under, limit_upper,
          exc, fig1, ax1, ax2, shown

vars == <<exists, file, pc, f, reader, row, nums,
          t, r, y, u, limit_under, limit_upper,
          exc, fig1, ax1, ax2, shown>>

\* Longest file explored, in records.
MaxRecords == 3

\* nums[0] .. nums[5] are read, so a record needs this many fields.
NumCols == 6

----------------------------------------------------------------------------
(* Field tokens are tuples of characters; float() is modelled on them.     *)

Tok0 == <<"0">>
Tok1 == <<"1">>
Tok2 == <<"2">>
Tok9 == <<"9">>
TokHalf == <<"0", ".", "5">>
TokM5 == <<"-", "5">>
Tok5 == <<"5">>
TokInf == <<"i", "n", "f">>
TokAbc == <<"a", "b", "c">>
TokEmpty == <<>>

\* The three records of the axis-clamp scenario.
RowA == <<Tok0, Tok1, Tok0, Tok0, TokM5, Tok5>>
RowB == <<Tok1, Tok1, TokHalf, Tok2, TokM5, Tok5>>
RowC == <<Tok2, Tok1, Tok1, Tok2, TokM5, Tok5>>

\* The records a file is made of: well-formed ones, ones with extra
\* fields (numeric and not), short ones, ones with a non-numeric token
\* among the first six, and one whose time is infinite.
Rows ==
    { RowA, RowB, RowC,
      RowB \o <<Tok9>>,
      RowC \o <<TokAbc>>,
      <<>>,
      <<Tok2, Tok1, Tok1>>,
      <<Tok1, TokAbc, Tok0, Tok0, TokM5, Tok5>>,
      <<TokEmpty, Tok1, Tok0>>,
      <<TokInf, Tok1, Tok0, Tok0, TokM5, Tok5>> }

RECURSIVE FilesOfLen(_)
FilesOfLen(n) ==
    IF n = 0 THEN { <<>> }
    ELSE { Append(p, rw) : p \in FilesOfLen(n - 1), rw \in Rows }

Files == UNION { FilesOfLen(n) : n \in 0..MaxRecords }

----------------------------------------------------------------------------
(* float(v)                                                                *)

Num(v) == [fin |-> TRUE, v |-> v]
PosInf == [fin |-> FALSE, v |-> 1]
NegInf == [fin |-> FALSE, v |-> -1]

Digits == {"0", "1", "2", "3", "4", "5", "6", "7", "8", "9"}

DigitVal(c) ==
    CASE c = "0" -> 0 [] c = "1" -> 1 [] c = "2" -> 2 [] c = "3" -> 3
      [] c = "4" -> 4 [] c = "5" -> 5 [] c = "6" -> 6 [] c = "7" -> 7
      [] c = "8" -> 8 [] c = "9" -> 9

HasSign(s) == Len(s) > 0 /\ s[1] \in {"+", "-"}
Sign(s) == IF Len(s) > 0 /\ s[1] = "-" THEN -1 ELSE 1
Unsigned(s) == IF HasSign(s) THEN Tail(s) ELSE s

\* Position of the decimal point in s, or Len(s) + 1 when there is none.
PointAt(s) ==
    IF \E i \in 1..Len(s) : s[i] = "."
    THEN CHOOSE i \in 1..Len(s) : s[i] = "." /\ \A j \in 1..(i - 1) : s[j] # "."
    ELSE Len(s) + 1

IntPart(s) == SubSeq(s, 1, PointAt(s) - 1)
FracPart(s) == SubSeq(s, PointAt(s) + 1, Len(s))

IsDecimal(s) ==
    /\ \A i \in 1..Len(IntPart(s)) : IntPart(s)[i] \in Digits
    /\ \A i \in 1..Len(FracPart(s)) : FracPart(s)[i] \in Digits
    /\ Len(IntPart(s)) + Len(FracPart(s)) > 0

\* float(v) succeeds on v.
IsFloat(v) == Unsigned(v) = TokInf \/ IsDecimal(Unsigned(v))

RECURSIVE DigitsVal(_)
DigitsVal(s) ==
    IF Len(s) = 0 THEN 0
    ELSE 10 * DigitsVal(SubSeq(s, 1, Len(s) - 1)) + DigitVal(s[Len(s)])

\* The fraction in hundredths (the tokens used have at most two decimals).
FracVal(s) ==
    IF Len(s) = 0 THEN 0
    ELSE IF Len(s) = 1 THEN 10 * DigitVal(s[1])
    ELSE 10 * DigitVal(s[1]) + DigitVal(s[2])

\* float(v) for a v that IsFloat.
Float(v) ==
    IF Unsigned(v) = TokInf
    THEN (IF Sign(v) = 1 THEN PosInf ELSE NegInf)
    ELSE Num(Sign(v) * (100 * DigitsVal(IntPart(Unsigned(v)))
                        + FracVal(FracPart(Unsigned(v)))))

\* [float(v) for v in row]: the tokens are converted left to right, every
\* one of them, and the first that does not convert raises ValueError.
AllFloat(rw) == \A j \in 1..Len(rw) : IsFloat(rw[j])
FirstBad(rw) == CHOOSE j \in 1..Len(rw) :
                    ~IsFloat(rw[j]) /\ \A i \in 1..(j - 1) : IsFloat(rw[i])
Floats(rw) == [j \in 1..Len(rw) |-> Float(rw[j])]

----------------------------------------------------------------------------
(* Exceptions: a built-in exception carries its type, the script line    *)
(* that raised it (its traceback) and, for the ValueError of float(),     *)
(* the text of the offending token.  None carries a record index or a     *)
(* field position.                                                        *)

NoExc == [type |-> "None", lineno |-> 0, token |-> <<>>]
Raise(ty, ln) == [type |-> ty, lineno |-> ln, token |-> <<>>]
RaiseValueError(tok) == [type |-> "ValueError", lineno |-> 17, token |-> tok]

NoAxes == [created |-> FALSE, lines |-> <<>>, xlim |-> <<>>,
           xlabel |-> "", ylabel |-> "", legend |-> <<>>]

Init ==
    /\ exists \in BOOLEAN
    /\ file \in Files
    /\ pc = "open"
    /\ f = "none"
    /\ reader = 0
    /\ row = <<>>
    /\ nums = <<>>
    /\ t = <<>> /\ r = <<>> /\ y = <<>> /\ u = <<>>
    /\ limit_under = <<>> /\ limit_upper = <<>>
    /\ exc = NoExc
    /\ fig1 = FALSE
    /\ ax1 = NoAxes
    /\ ax2 = NoAxes
    /\ shown = FALSE

data == <<t, r, y, u, limit_under, limit_upper>>
figure == <<fig1, ax1, ax2, shown>>
input == <<exists, file>>

----------------------------------------------------------------------------
(* Loader, lines 14-24                                                     *)

\* with open('./result.csv') as f: a missing file raises before the with
\* block is entered, so there is no handle to release.
Open ==
    /\ pc = "open"
    /\ IF exists
       THEN /\ f' = "open"
            /\ pc' = "for"
            /\ exc' = exc
       ELSE /\ f' = f
            /\ pc' = "failed"
            /\ exc' = Raise("FileNotFoundError", 14)
    /\ UNCHANGED <<input, reader, row, nums, data, figure>>

\* for row in reader: the next record, or the end of the loop.
NextRow ==
    /\ pc = "for"
    /\ IF reader < Len(file)
       THEN /\ row' = file[reader + 1]
            /\ reader' = reader + 1
            /\ pc' = "parse"
       ELSE /\ pc' = "exit"
            /\ UNCHANGED <<row, reader>>
    /\ UNCHANGED <<input, f, nums, data, exc, figure>>

\* The read behind the iteration fails.
ReadError ==
    /\ pc = "for"
    /\ exc' = Raise("OSError", 16)
    /\ pc' = "exit"
    /\ UNCHANGED <<input, f, reader, row, nums, data, figure>>

Min(a, b) == IF a < b THEN a ELSE b

\* row[:6]
UsedFields(rw) == SubSeq(rw, 1, Min(Len(rw), NumCols))

\* Parse as it would be if only the six fields that are used were
\* converted: nums = [float(v) for v in row[:6]].
ParseFirstSix ==
    /\ pc = "parse"
    /\ IF AllFloat(UsedFields(row))
       THEN /\ nums' = Floats(UsedFields(row))
            /\ pc' = "append_t"
            /\ exc' = exc
       ELSE /\ exc' = RaiseValueError(row[FirstBad(UsedFields(row))])
            /\ pc' = "exit"
            /\ nums' = nums
    /\ UNCHANGED <<input, f, reader, row, data, figure>>

\* nums = [float(v) for v in row]
Parse ==
    /\ pc = "parse"
    /\ IF AllFloat(row)
       THEN /\ nums' = Floats(row)
            /\ pc' = "append_t"
            /\ exc' = exc
       ELSE /\ exc' = RaiseValueError(row[FirstBad(row)])
            /\ pc' = "exit"
            /\ nums' = nums
    /\ UNCHANGED <<input, f, reader, row, data, figure>>

\* nums[i], i counted from 0 as in the script, is in range.
InRange(i) == i + 1 <= Len(nums)

\* t.append(nums[0])
AppendT ==
    /\ pc = "append_t"
    /\ IF InRange(0)
       THEN /\ t' = Append(t, nums[1])
            /\ pc' = "append_r"
            /\ exc' = exc
       ELSE /\ exc' = Raise("IndexError", 19)
            /\ pc' = "exit"
            /\ t' = t
    /\ UNCHANGED <<input, f, reader, row, nums, r, y, u, limit_under,
                   limit_upper, figure>>

\* r.append(nums[1])
AppendR ==
    /\ pc = "append_r"
    /\ IF InRange(1)
       THEN /\ r' = Append(r, nums[2])
            /\ pc' = "append_y"
            /\ exc' = exc
       ELSE /\ exc' = Raise("IndexError", 20)
            /\ pc' = "exit"
            /\ r' = r
    /\ UNCHANGED <<input, f, reader, row, nums, t, y, u, limit_under,
                   limit_upper, figure>>

\* y.append(nums[2])
AppendY ==
    /\ pc = "append_y"
    /\ IF InRange(2)
       THEN /\ y' = Append(y, nums[3])
            /\ pc' = "append_u"
            /\ exc' = exc
       ELSE /\ exc' = Raise("IndexError", 21)
            /\ pc' = "exit"
            /\ y' = y
    /\ UNCHANGED <<input, f, reader, row, nums, t, r, u, limit_under,
                   limit_upper, figure>>

\* u.append(nums[3])
AppendU ==
    /\ pc = "append_u"
    /\ IF InRange(3)
       THEN /\ u' = Append(u, nums[4])
            /\ pc' = "append_under"
            /\ exc' = exc
       ELSE /\ exc' = Raise("IndexError", 22)
            /\ pc' = "exit"
            /\ u' = u
    /\ UNCHANGED <<input, f, reader, row, nums, t, r, y, limit_under,
                   limit_upper, figure>>

\* limit_under.append(nums[4])
AppendUnder ==
    /\ pc = "append_under"
    /\ IF InRange(4)
       THEN /\ limit_under' = Append(limit_under, nums[5])
            /\ pc' = "append_upper"
            /\ exc' = exc
       ELSE /\ exc' = Raise("IndexError", 23)
            /\ pc' = "exit"
            /\ limit_under' = limit_under
    /\ UNCHANGED <<input, f, reader, row, nums, t, r, y, u, limit_upper,
                   figure>>

\* AppendUpper as it would be with the index of the line above copied:
\* limit_upper.append(nums[4]).
AppendUpperFromField4 ==
    /\ pc = "append_upper"
    /\ IF InRange(4)
       THEN /\ limit_upper' = Append(limit_upper, nums[5])
            /\ pc' = "for"
            /\ exc' = exc
       ELSE /\ exc' = Raise("IndexError", 24)
            /\ pc' = "exit"
            /\ limit_upper' = limit_upper
    /\ UNCHANGED <<input, f, reader, row, nums, t, r, y, u, limit_under,
                   figure>>

\* AppendUpper as it would be if the upper limit were taken from the end
\* of the record: limit_upper.append(nums[-1]).
AppendUpperFromLast ==
    /\ pc = "append_upper"
    /\ IF Len(nums) > 0
       THEN /\ limit_upper' = Append(limit_upper, nums[Len(nums)])
            /\ pc' = "for"
            /\ exc' = exc
       ELSE /\ exc' = Raise("IndexError", 24)
            /\ pc' = "exit"
            /\ limit_upper' = limit_upper
    /\ UNCHANGED <<input, f, reader, row, nums, t, r, y, u, limit_under,
                   figure>>

\* limit_upper.append(nums[5]), the last statement of the loop body.
AppendUpper ==
    /\ pc = "append_upper"
    /\ IF InRange(5)
       THEN /\ limit_upper' = Append(limit_upper, nums[6])
            /\ pc' = "for"
            /\ exc' = exc
       ELSE /\ exc' = Raise("IndexError", 24)
            /\ pc' = "exit"
            /\ limit_upper' = limit_upper
    /\ UNCHANGED <<input, f, reader, row, nums, t, r, y, u, limit_under,
                   figure>>

\* WithExit as it would be with f = open(...) and f.close() after the
\* loop, in place of the with block: an exception skips the close.
WithExitLeak ==
    /\ pc = "exit"
    /\ f' = IF exc = NoExc THEN "closed" ELSE f
    /\ pc' = IF exc = NoExc THEN "figure" ELSE "failed"
    /\ UNCHANGED <<input, reader, row, nums, data, exc, figure>>

\* WithExit as it would be with the loop wrapped in try/except/pass: the
\* script goes on to draw whatever was read.
WithExitSwallow ==
    /\ pc = "exit"
    /\ f' = "closed"
    /\ pc' = "figure"
    /\ UNCHANGED <<input, reader, row, nums, data, exc, figure>>

\* Leaving the with block, by falling off its end or by an exception
\* passing through it: the file is closed either way, and an exception
\* then ends the script.
WithExit ==
    /\ pc = "exit"
    /\ f' = "closed"
    /\ pc' = IF exc = NoExc THEN "figure" ELSE "failed"
    /\ UNCHANGED <<input, reader, row, nums, data, exc, figure>>

Loader ==
    \/ Open \/ NextRow \/ ReadError \/ Parse
    \/ AppendT \/ AppendR \/ AppendY \/ AppendU \/ AppendUnder \/ AppendUpper
    \/ WithExit

\* The loop of lines 16-24 as a function of the records: the exception
\* that ends it ("None" when it runs to the end) and the six lists then.

RECURSIVE LoadFrom(_, _, _)
LoadFrom(records, k, acc) ==
    IF k > Len(records)
    THEN [outcome |-> "None", data |-> acc]
    ELSE IF ~AllFloat(records[k])
    THEN [outcome |-> "ValueError", data |-> acc]
    ELSE LET n == Floats(records[k])
             m == Min(Len(n), NumCols)
             acc2 == [c \in 1..NumCols |->
                        IF c <= m THEN Append(acc[c], n[c]) ELSE acc[c]]
         IN  IF m < NumCols
             THEN [outcome |-> "IndexError", data |-> acc2]
             ELSE LoadFrom(records, k + 1, acc2)

Load(records) == LoadFrom(records, 1, [c \in 1..NumCols |-> <<>>])

----------------------------------------------------------------------------
(* Renderer, lines 28-49                                                   *)

\* Axes.step(x, y, **kwargs): a line through the samples drawn with the
\* default where='pre', that is drawstyle 'steps-pre'.
StepLine(x, yv, color, label, linestyle) ==
    [x |-> x, y |-> yv, drawstyle |-> "steps-pre",
     color |-> color, label |-> label, linestyle |-> linestyle]

\* The value a step line shows strictly between its samples i and i + 1
\* (counted from 1): 'steps-pre' rises at sample i and runs level at the
\* value of sample i + 1, 'steps-post' runs level at the value of sample i
\* and rises at sample i + 1.
HeldBetween(line, i) ==
    IF line.drawstyle = "steps-pre" THEN line.y[i + 1] ELSE line.y[i]

Abs(n) == IF n < 0 THEN -n ELSE n

\* The view interval Axes.set_xlim(left, right) installs for finite limits,
\* in twentieths of the unit of left and right: the limits as given, but
\* identical limits are expanded by 5 % of their magnitude on each side
\* (by 0.05 around zero), since a zero-width range cannot be displayed.
Nonsingular(left, right) ==
    IF left = right
    THEN IF left = 0
         THEN <<-100, 100>>
         ELSE <<20 * left - Abs(left), 20 * right + Abs(right)>>
    ELSE <<20 * left, 20 * right>>

\* The labels of the legend: one entry for each line that has a label.
LegendOf(lines) ==
    LET labelled == SelectSeq(lines, LAMBDA l : l.label # "")
    IN  [i \in 1..Len(labelled) |-> labelled[i].label]

\* fig1 = plt.figure(figsize = (10, 7)); plt.suptitle(...)
Figure ==
    /\ pc = "figure"
    /\ fig1' = TRUE
    /\ pc' = "subplot1"
    /\ UNCHANGED <<input, f, reader, row, nums, data, exc, ax1, ax2, shown>>

\* ax1 = fig1.add_subplot(211)
AddSubplot1 ==
    /\ pc = "subplot1"
    /\ ax1' = [ax1 EXCEPT !.created = TRUE]
    /\ pc' = "step_r"
    /\ UNCHANGED <<input, f, reader, row, nums, data, exc, fig1, ax2, shown>>

\* ax1.step(t, r, color="royalblue", label="Set-point", linestyle = "--")
StepR ==
    /\ pc = "step_r"
    /\ ax1' = [ax1 EXCEPT !.lines =
                 Append(@, StepLine(t, r, "royalblue", "Set-point", "--"))]
    /\ pc' = "step_y"
    /\ UNCHANGED <<input, f, reader, row, nums, data, exc, fig1, ax2, shown>>

\* ax1.step(t, y, color="limegreen", label="Plant output")
StepY ==
    /\ pc = "step_y"
    /\ ax1' = [ax1 EXCEPT !.lines =
                 Append(@, StepLine(t, y, "limegreen", "Plant output", "-"))]
    /\ pc' = "xlim1"
    /\ UNCHANGED <<input, f, reader, row, nums, data, exc, fig1, ax2, shown>>

\* SetXlim as it would be with the axis started at zero:
\* ax.set_xlim(0, t[-1]).
SetXlimFromZero(ax, ln) ==
    IF Len(t) = 0
    THEN [ok |-> FALSE, ax |-> ax, exc |-> Raise("IndexError", ln)]
    ELSE IF ~t[Len(t)].fin
    THEN [ok |-> FALSE, ax |-> ax, exc |-> Raise("ValueError", ln)]
    ELSE [ok |-> TRUE,
          ax |-> [ax EXCEPT !.xlim = Nonsingular(0, t[Len(t)].v)],
          exc |-> exc]

\* ax.set_xlim(t[0], t[-1]): t[0] raises IndexError on an empty list, and
\* set_xlim raises ValueError on a limit that is not finite.
SetXlim(ax, ln) ==
    IF Len(t) = 0
    THEN [ok |-> FALSE, ax |-> ax, exc |-> Raise("IndexError", ln)]
    ELSE IF ~t[1].fin \/ ~t[Len(t)].fin
    THEN [ok |-> FALSE, ax |-> ax, exc |-> Raise("ValueError", ln)]
    ELSE [ok |-> TRUE,
          ax |-> [ax EXCEPT !.xlim = Nonsingular(t[1].v, t[Len(t)].v)],
          exc |-> exc]

\* ax1.set_xlim(t[0], t[-1])
SetXlim1 ==
    /\ pc = "xlim1"
    /\ ax1' = SetXlim(ax1, 34).ax
    /\ exc' = SetXlim(ax1, 34).exc
    /\ pc' = IF SetXlim(ax1, 34).ok THEN "decorate1" ELSE "failed"
    /\ UNCHANGED <<input, f, reader, row, nums, data, fig1, ax2, shown>>

\* ax1.set_ylabel(...); ax1.tick_params(...); ax1.legend(...)
Decorate1 ==
    /\ pc = "decorate1"
    /\ ax1' = [ax1 EXCEPT !.ylabel = "Displacement [m]",
                          !.legend = LegendOf(ax1.lines)]
    /\ pc' = "subplot2"
    /\ UNCHANGED <<input, f, reader, row, nums, data, exc, fig1, ax2, shown>>

\* ax2 = fig1.add_subplot(212)
AddSubplot2 ==
    /\ pc = "subplot2"
    /\ ax2' = [ax2 EXCEPT !.created = TRUE]
    /\ pc' = "step_upper"
    /\ UNCHANGED <<input, f, reader, row, nums, data, exc, fig1, ax1, shown>>

\* ax2.step(t, limit_upper, color="red", linestyle="--", label="Limit")
StepUpper ==
    /\ pc = "step_upper"
    /\ ax2' = [ax2 EXCEPT !.lines =
                 Append(@, StepLine(t, limit_upper, "red", "Limit", "--"))]
    /\ pc' = "step_under"
    /\ UNCHANGED <<input, f, reader, row, nums, data, exc, fig1, ax1, shown>>

\* ax2.step(t, limit_under, color="red", linestyle="--")
StepUnder ==
    /\ pc = "step_under"
    /\ ax2' = [ax2 EXCEPT !.lines =
                 Append(@, StepLine(t, limit_under, "red", "", "--"))]
    /\ pc' = "step_u"
    /\ UNCHANGED <<input, f, reader, row, nums, data, exc, fig1, ax1, shown>>

\* ax2.step(t, u, color="orange", label="Control input")
StepU ==
    /\ pc = "step_u"
    /\ ax2' = [ax2 EXCEPT !.lines =
                 Append(@, StepLine(t, u, "orange", "Control input", "-"))]
    /\ pc' = "xlim2"
    /\ UNCHANGED <<input, f, reader, row, nums, data, exc, fig1, ax1, shown>>

\* ax2.set_xlim(t[0], t[-1])
SetXlim2 ==
    /\ pc = "xlim2"
    /\ ax2' = SetXlim(ax2, 43).ax
    /\ exc' = SetXlim(ax2, 43).exc
    /\ pc' = IF SetXlim(ax2, 43).ok THEN "decorate2" ELSE "failed"
    /\ UNCHANGED <<input, f, reader, row, nums, data, fig1, ax1, shown>>

\* ax2.set_xlabel(...); ax2.set_ylabel(...); ax2.tick_params(...);
\* ax2.legend(...)
Decorate2 ==
    /\ pc = "decorate2"
    /\ ax2' = [ax2 EXCEPT !.xlabel = "Time [s]", !.ylabel = "Force [N]",
                          !.legend = LegendOf(ax2.lines)]
    /\ pc' = "show"
    /\ UNCHANGED <<input, f, reader, row, nums, data, exc, fig1, ax1, shown>>

\* plt.show()
Show ==
    /\ pc = "show"
    /\ shown' = TRUE
    /\ pc' = "done"
    /\ UNCHANGED <<input, f, reader, row, nums, data, exc, fig1, ax1, ax2>>

Renderer ==
    \/ Figure \/ AddSubplot1 \/ StepR \/ StepY \/ SetXlim1 \/ Decorate1
    \/ AddSubplot2 \/ StepUpper \/ StepUnder \/ StepU \/ SetXlim2
    \/ Decorate2 \/ Show

Next == Loader \/ Renderer

Spec == Init /\ [][Next]_vars

----------------------------------------------------------------------------
(* Properties                                                              *)

LoaderPcs == {"open", "for", "parse", "append_t", "append_r", "append_y",
              "append_u", "append_under", "append_upper", "exit"}

LoaderLines == 14..24

\* The exception, if any, was raised by the loader.
LoaderRaised == exc # NoExc /\ exc.lineno \in LoaderLines

\* The load has ended, and with no exception.
LoadSucceeded == pc \notin LoaderPcs /\ ~LoaderRaised

\* The load has ended with an exception.
LoadFailed == pc = "failed" /\ LoaderRaised

\* Something has been drawn.
Rendering ==
    \/ fig1 \/ shown
    \/ ax1 # NoAxes \/ ax2 # NoAxes

\* The 0-based index of the record the loop body is working on.
CurrentRecord == reader - 1

\* Every record has at least six fields and all its fields are numbers.
ValidFile == \A i \in 1..Len(file) :
                 Len(file[i]) >= NumCols /\ AllFloat(file[i])

\* The exception names record k (and field j): no built-in exception has
\* such fields.
NamesRecord(e, k) == "record" \in DOMAIN e /\ e.record = k
NamesField(e, j) == "field" \in DOMAIN e /\ e.field = j

C2_MalformedRejected ==
    (/\ pc \in {"exit", "failed"} /\ LoaderRaised
     /\ exc.lineno \in 17..24
     /\ Len(row) < NumCols /\ AllFloat(row)) =>
        /\ exc.type = "MalformedRecordError"
        /\ NamesRecord(exc, CurrentRecord)
        /\ \A c \in 1..NumCols : Len(data[c]) = CurrentRecord

\* C5: when the loader fails on a token that is not a number, the
\* exception is a ParseError naming the record and the position of the
\* token in it, and no later record has been read.
C5_ParseErrorLocated ==
    (/\ pc \in {"exit", "failed"} /\ LoaderRaised
     /\ ~AllFloat(row)) =>
        /\ exc.type = "ParseError"
        /\ NamesRecord(exc, CurrentRecord)
        /\ NamesField(exc, FirstBad(row) - 1)
        /\ row = file[reader]

\* The load ended, and not by a fault of the file system.
LoadDecided ==
    /\ pc \notin LoaderPcs
    /\ LoaderRaised => exc.type \notin {"FileNotFoundError", "OSError"}

LoadOutcome == IF LoaderRaised THEN exc.type ELSE "None"

\* Every record cut down to its first six fields.
FirstSix(records) ==
    [i \in 1..Len(records) |-> UsedFields(records[i])]

\* The fields after the sixth are all numbers.
ExtrasNumeric ==
    \A i \in 1..Len(file) : \A j \in (NumCols + 1)..Len(file[i]) :
        IsFloat(file[i][j])

SameAsWithoutExtras ==
    /\ LoadOutcome = Load(FirstSix(file)).outcome
    /\ LoadOutcome = "None" => data = Load(FirstSix(file)).data

\* C6 as stated: the load of a file ends as the load of the same file
\* without the fields after the sixth does, with the same six lists on
\* success, whatever those fields are.
C6_ExtrasIgnored == LoadDecided => SameAsWithoutExtras

\* C6 amended: the same, for files whose fields after the sixth are
\* all numbers.
C6_NumericExtrasIgnored ==
    (LoadDecided /\ ExtrasNumeric) => SameAsWithoutExtras

C6_Witness ==
    /\ LoadDecided /\ ExtrasNumeric /\ LoadOutcome = "None"
    /\ \E i \in 1..Len(file) : Len(file[i]) > NumCols

\* C7: once the load has ended, however it ended, the file is not open,
\* and it is closed before anything is drawn.
C7_HandleReleased ==
    /\ pc \notin LoaderPcs => f # "open"
    /\ (Rendering \/ pc = "figure") => f = "closed"

C7_Witness ==
    /\ LoadFailed /\ f = "closed"
    /\ exc.type \in {"ValueError", "IndexError", "OSError"}
    /\ reader >= 2

\* C10: while the six appends of a record run, every token of the record,
\* those after the sixth included, has been converted; so when a token
\* fails to convert, the six lists all have one element per earlier
\* record and hold exactly the fields of those records.
C10_ParseBeforeAppend ==
    /\ pc \in {"append_t", "append_r", "append_y", "append_u",
               "append_under", "append_upper"} =>
           AllFloat(row) /\ nums = Floats(row)
    /\ (pc \in {"exit", "failed"} /\ LoaderRaised /\ ~AllFloat(row)) =>
           /\ exc.type = "ValueError" /\ exc.lineno = 17
           /\ \A c \in 1..NumCols :
                  /\ Len(data[c]) = CurrentRecord
                  /\ \A i \in 1..CurrentRecord :
                         data[c][i] = Float(file[i][c])

C10_Witness ==
    /\ pc = "failed" /\ exc.type = "ValueError" /\ exc.lineno = 17
    /\ CurrentRecord = 2
    /\ Len(row) > NumCols /\ AllFloat(SubSeq(row, 1, NumCols))

\* C3: when the file has no record, so that the table handed to the
\* renderer is empty, the script ends with an EmptyDatasetError and
\* nothing is drawn: no figure, no panel, no line, no axis limit.
C3_EmptyDatasetGuard ==
    (LoadSucceeded /\ Len(t) = 0) =>
        /\ ~Rendering
        /\ pc = "failed" => exc.type = "EmptyDatasetError"
        /\ pc \notin {"xlim1", "xlim2"}

AllLines == { ax1.lines[i] : i \in 1..Len(ax1.lines) }
                \cup { ax2.lines[i] : i \in 1..Len(ax2.lines) }

\* C4: every plotted line holds the value of sample i from time[i] up to
\* time[i + 1]: strictly between two consecutive sample times it shows the
\* value of the earlier sample.
C4_PostHold ==
    \A line \in AllLines : \A i \in 1..(Len(line.x) - 1) :
        (/\ line.x[i].fin /\ line.x[i + 1].fin
         /\ line.x[i].v < line.x[i + 1].v) =>
            HeldBetween(line, i) = line.y[i]

\* C8: nothing is drawn before the loader has consumed the last record and
\* ended without an exception; after a failed load nothing is drawn; and
\* no step that draws, or that follows one, changes the six lists.
C8_LoaderBeforeRenderer ==
    /\ [](Rendering => (reader = Len(file) /\ LoadSucceeded))
    /\ [](LoadFailed => ~Rendering)
    /\ [][(Rendering \/ Rendering') => data' = data]_vars

C8_Witness ==
    /\ shown /\ Len(t) >= 2
    /\ Len(ax1.lines) = 2 /\ Len(ax2.lines) = 3

\* Both panels drawn to the end.
XlimsSet == pc \in {"decorate2", "show", "done"}

\* The x range [left, right] in the unit of the axis limits.
Range(left, right) == <<20 * left.v, 20 * right.v>>

\* C9 as stated: once both panels have their limits, the x range of each
\* is exactly [t[0], t[N-1]], for every table of one record or more.
C9_XlimExact ==
    XlimsSet =>
        /\ ax1.xlim = Range(t[1], t[Len(t)])
        /\ ax2.xlim = Range(t[1], t[Len(t)])

\* C9 amended: both panels have the same x range; it is exactly
\* [t[0], t[N-1]] when the first and the last time differ, and a range of
\* positive width around that value when they are equal (as for N = 1);
\* for the three records of the scenario it is [0, 2].
C9_XlimExactWhenDistinct ==
    XlimsSet =>
        /\ ax1.xlim = ax2.xlim
        /\ t[1] # t[Len(t)] => ax1.xlim = Range(t[1], t[Len(t)])
        /\ t[1] = t[Len(t)] =>
               /\ ax1.xlim[1] < 20 * t[1].v
               /\ 20 * t[1].v < ax1.xlim[2]
        /\ file = <<RowA, RowB, RowC>> =>
               ax1.xlim = Range(Num(0), Num(200))

C9_Witness ==
    /\ pc = "done"
    /\ file = <<RowA, RowB, RowC>>
    /\ ax1.xlim = Range(Num(0), Num(200)) /\ ax2.xlim = ax1.xlim

====
